---------------------------- MODULE Spec2Model ----------------------------
(***************************************************************************)
(* A model of eye-guide's font alignment (align_fonts.py) and of the font  *)
(* resolver that consumes its remap tables (fonts.py).                     *)
(*                                                                         *)
(*   OffsetSpec  optimize_offset: the per-character hill-climb over pixel  *)
(*               offsets, with move_image and the coverage cost.           *)
(*   ScaleSpec   align_font: the bracket-narrowing search over font scale. *)
(*   PoolSpec    run_pool / run / store_result / write_json, and           *)
(*               setup_boldened_font reading remap/<base>.json.            *)
(*                                                                         *)
(* Pixel intensities are the 8-bit grey values g of a PIL "L" image; the   *)
(* normalised intensity g / 255.0 is carried as its numerator over 255, so *)
(* a cost (a sum of products of two normalised values) is carried as its   *)
(* numerator over 255 * 255.  Arithmetic is exact: floating-point rounding *)
(* of the sums is not modelled.                                            *)
(***************************************************************************)
EXTENDS Integers, Sequences, FiniteSets, TLC

VARIABLES
    \* optimize_offset
    ref_img,          \* ref_img["image"] after /= 255.0 (rows of numerators)
    overlay_img,      \* overlay_img["image"] after /= 255.0
    offset,           \* the current search offset <<dx, dy>>
    remainders,       \* the memo: offset -> cost
    trail,            \* history: the offsets the search has been at, in order
    moved_img,        \* the last image move_image returned, with its new_offset
    remainder,        \* the returned remainder ratio, <<numerator, denominator>>
    pc_offset         \* "search" | "done" | "idle"

VARIABLES
    \* align_font
    objective,        \* the average_remainder align_font_instance reports, by scale
    low_scale,        \* numerators over ScaleDenominator
    high_scale,
    iterations,       \* passes through the while loop so far
    result,           \* what align_font returned
    pc_scale          \* "sampling" | "returned" | "idle"

VARIABLES
    \* run_pool and its worker tasks
    font_map,         \* the dict, as the sequence of its (overlay, base) items
    install_remap,
    unreadable,       \* the font paths ImageFont.truetype cannot read
    objectives,       \* per pair, the objective its scale search meets
    task,             \* per pair, where its _run_wrapper call stands
    align_result,     \* per pair, the dictionary align_font returned
    files,            \* the file system: path -> content
    outqueue,         \* results the workers have put, not yet taken by the parent
    collected,        \* results the parent's list(...) has taken
    pc_pool,          \* "collecting" | "returned" | "raised" | "terminated" | "idle"
    \* fonts.py
    remapped_fonts,   \* _remapped_fonts
    canvas            \* what setup_boldened_font last set on the canvas

offset_vars == <<ref_img, overlay_img, offset, trail, remainders, moved_img, remainder,
                 pc_offset>>

scale_vars == <<objective, low_scale, high_scale, iterations, result, pc_scale>>

pool_vars == <<font_map, install_remap, unreadable, objectives, task, align_result,
               files, outqueue, collected, pc_pool>>

resolver_vars == <<remapped_fonts, canvas>>

vars == <<offset_vars, scale_vars, pool_vars, resolver_vars>>

-----------------------------------------------------------------------------
(* Bounds of the model *)

\* canvases of 1..MaxW columns and 1..MaxH rows
MaxW == 3
MaxH == 2
\* the disk scenario: radii 1..MaxRadius, shifts of -MaxShift..MaxShift pixels
MaxRadius == 2
MaxShift == 2
\* objectives with their minimum at k / 20 for k in 2..MaxCentre
MaxCentre == 46
\* the sawtooth objectives of the scale search have slopes 1..MaxSlope
MaxSlope == 4
\* font maps of 1..MaxPairs pairs, run by a pool of NumWorkers processes
MaxPairs == 2
NumWorkers == 2

-----------------------------------------------------------------------------
(* Program constants *)

\* Image.new("L", image_size, 255): white background; "image" /= 255.0
MaxGray == 255
\* move_image(img, dx, dy, pad_color=255)
DefaultPadColor == 255

\* A number v of the normalised scale (1.0, 255.0, ...) as a numerator over 255.
Normalized(v) == v * MaxGray

-----------------------------------------------------------------------------
(* Bitmaps: stand-ins for what create_char_image renders *)

Blank(W, H) == [y \in 1..H |-> [x \in 1..W |-> MaxGray]]

RectImage(W, H, x0, x1, y0, y1, g) ==
    [y \in 1..H |-> [x \in 1..W |->
        IF x0 <= x /\ x <= x1 /\ y0 <= y /\ y <= y1 THEN g ELSE MaxGray]]

\* the grey values a glyph is drawn with: full ink and an antialiased half tone
InkGrays == {0, MaxGray \div 2}

Glyphs(W, H) ==
    {Blank(W, H)} \cup
    {RectImage(W, H, x0, x1, y0, y1, g) :
        x0 \in 1..W, x1 \in 1..W, y0 \in 1..H, y1 \in 1..H, g \in InkGrays}

\* The disk scenario: a square canvas with the reference disk in its centre,
\* far enough from the edges for every shift of the overlay disk to fit.
DiskCentre == MaxRadius + 2 * MaxShift + 1
DiskCanvas == 2 * DiskCentre - 1

DiskImage(cx, cy, r) ==
    [y \in 1..DiskCanvas |-> [x \in 1..DiskCanvas |->
        IF (x - cx) * (x - cx) + (y - cy) * (y - cy) <= r * r THEN 0 ELSE MaxGray]]

Shifts == (-MaxShift..MaxShift) \X (-MaxShift..MaxShift)

-----------------------------------------------------------------------------
(* numpy helpers *)

Width(img) == Len(img[1])
Height(img) == Len(img)

Pad(n, pad_color) == [i \in 1..n |-> pad_color]

\* np.pad(img, ((0, 0), (dx, 0)), constant_values=pad_color)[:, :-dx]
PadLeft(img, dx, pad_color) ==
    [y \in 1..Height(img) |-> SubSeq(Pad(dx, pad_color) \o img[y], 1, Width(img))]

\* np.pad(img, ((0, 0), (0, -dx)), constant_values=pad_color)[:, -dx:]
PadRight(img, n, pad_color) ==
    [y \in 1..Height(img) |-> SubSeq(img[y] \o Pad(n, pad_color), n + 1, n + Width(img))]

\* np.pad(img, ((dy, 0), (0, 0)), constant_values=pad_color)[:-dy, :]
PadTop(img, dy, pad_color) ==
    SubSeq([y \in 1..dy |-> Pad(Width(img), pad_color)] \o img, 1, Height(img))

\* np.pad(img, ((0, -dy), (0, 0)), constant_values=pad_color)[-dy:, :]
PadBottom(img, n, pad_color) ==
    SubSeq(img \o [y \in 1..n |-> Pad(Width(img), pad_color)], n + 1, n + Height(img))

move_image(img, dx, dy, pad_color) ==
    LET a == IF dx > 0 THEN PadLeft(img, dx, pad_color) ELSE img
        b == IF dx < 0 THEN PadRight(a, -dx, pad_color) ELSE a
        c == IF dy > 0 THEN PadTop(b, dy, pad_color) ELSE b
    IN  IF dy < 0 THEN PadBottom(c, -dy, pad_color) ELSE c

RECURSIVE SumRow(_, _, _)
SumRow(a, b, x) ==
    IF x = 0 THEN 0 ELSE a[x] * (MaxGray - b[x]) + SumRow(a, b, x - 1)

RECURSIVE SumRows(_, _, _)
SumRows(img, ref, y) ==
    IF y = 0 THEN 0 ELSE SumRow(img[y], ref[y], Width(img)) + SumRows(img, ref, y - 1)

\* np.sum(img * (1.0 - ref_img["image"])), as a numerator over 255 * 255
Cost(img, ref) == SumRows(img, ref, Height(img))

\* a variant of ArgMin that returns the last index of the minimum
ArgMinLast(s) ==
    CHOOSE i \in 1..Len(s) :
        /\ \A j \in 1..Len(s) : s[i] <= s[j]
        /\ \A j \in (i + 1)..Len(s) : s[j] > s[i]

\* np.argmin: the first index of the minimum
ArgMin(s) ==
    CHOOSE i \in 1..Len(s) :
        /\ \A j \in 1..Len(s) : s[i] <= s[j]
        /\ \A j \in 1..(i - 1) : s[j] > s[i]

-----------------------------------------------------------------------------
(* optimize_offset *)

neighbors ==
    << <<1, 0>>, <<1, 1>>, <<0, 1>>, <<-1, 1>>, <<-1, 0>>, <<-1, -1>>, <<0, -1>>, <<1, -1>> >>

Add(o, d) == <<o[1] + d[1], o[2] + d[2]>>

\* a variant of MovedOverlay that passes the offset as (dy, dx)
MovedOverlaySwapped(new_offset) ==
    move_image(overlay_img, new_offset[2], new_offset[1], Normalized(DefaultPadColor))

\* img = move_image(overlay_img["image"], *new_offset): pad_color is left to
\* its default although the image is already normalised.
MovedOverlay(new_offset) ==
    move_image(overlay_img, new_offset[1], new_offset[2], Normalized(DefaultPadColor))

\* the offsets the for loop of this iteration finds missing from the memo
NewOffsets ==
    {Add(offset, neighbors[k]) : k \in 1..Len(neighbors)} \ DOMAIN remainders

\* img after the for loop: what move_image returned for the last neighbour the
\* memo did not hold, or the earlier img when it held them all
LastMoved ==
    IF NewOffsets = {} THEN moved_img
    ELSE LET k == CHOOSE k \in 1..Len(neighbors) :
                    /\ Add(offset, neighbors[k]) \in NewOffsets
                    /\ \A j \in (k + 1)..Len(neighbors) :
                         Add(offset, neighbors[j]) \notin NewOffsets
         IN  [new_offset |-> Add(offset, neighbors[k]),
              image |-> MovedOverlay(Add(offset, neighbors[k]))]

\* the body of the for loop for one new_offset: its cost is computed unless
\* the memo holds it, and is what neighbor_remainders gets
NeighborRemainder(new_offset) ==
    IF new_offset \in DOMAIN remainders THEN remainders[new_offset]
    ELSE Cost(MovedOverlay(new_offset), ref_img)

\* neighbor_remainders after the for loop
neighbor_remainders ==
    << NeighborRemainder(Add(offset, neighbors[1])), NeighborRemainder(Add(offset, neighbors[2])),
       NeighborRemainder(Add(offset, neighbors[3])), NeighborRemainder(Add(offset, neighbors[4])),
       NeighborRemainder(Add(offset, neighbors[5])), NeighborRemainder(Add(offset, neighbors[6])),
       NeighborRemainder(Add(offset, neighbors[7])), NeighborRemainder(Add(offset, neighbors[8])) >>

\* the memo after the for loop: the entries it had, and the costs nr of the
\* neighbours it did not have
Memo(nr) ==
    [o \in DOMAIN remainders \cup NewOffsets |->
        IF o \in DOMAIN remainders THEN remainders[o]
        ELSE nr[CHOOSE k \in 1..Len(neighbors) : Add(offset, neighbors[k]) = o]]

\* a variant of Break that also moves on to a neighbour of equal cost
BreakOnlyWhenWorse(nr) == nr[ArgMin(nr)] > remainders[offset]

\* a variant of Break with the comparison turned around
BreakInverted(nr) == nr[ArgMin(nr)] <= remainders[offset]

\* i = np.argmin(neighbor_remainders)
\* if neighbor_remainders[i] >= remainders[offset]: break
Break(nr) == nr[ArgMin(nr)] >= remainders[offset]

\* a variant of RemainderRatio that divides by the number of rows only
RemainderRatioRowsOnly(cost, ref) == <<cost, Height(ref) * MaxGray * MaxGray>>

\* remainders[offset] / (shape[0] * shape[1]), as <<numerator, denominator>>
\* over the common factor 255 * 255
RemainderRatio(cost, ref) == <<cost, Height(ref) * Width(ref) * MaxGray * MaxGray>>

OffsetStart(ref, overlay) ==
    /\ ref_img = ref
    /\ overlay_img = overlay
    /\ offset = <<0, 0>>
    /\ trail = << <<0, 0>> >>
    /\ remainders = [o \in {<<0, 0>>} |-> Cost(overlay, ref)]
    /\ moved_img = <<>>
    /\ remainder = <<>>
    /\ pc_offset = "search"

OffsetIdle ==
    /\ ref_img = <<>>
    /\ overlay_img = <<>>
    /\ offset = <<0, 0>>
    /\ trail = <<>>
    /\ remainders = <<>>
    /\ moved_img = <<>>
    /\ remainder = <<>>
    /\ pc_offset = "idle"

OffsetStarts ==
    \/ \E W \in 1..MaxW, H \in 1..MaxH :
         \E ref \in Glyphs(W, H), overlay \in Glyphs(W, H) : OffsetStart(ref, overlay)
    \/ \E r \in 1..MaxRadius, s \in Shifts :
         OffsetStart(DiskImage(DiskCentre, DiskCentre, r),
                     DiskImage(DiskCentre + s[1], DiskCentre + s[2], r))

\* One iteration of the while loop: the for loop fills the memo, then the
\* search either breaks (and optimize_offset returns) or moves to the best
\* neighbour.
Iterate ==
    /\ pc_offset = "search"
    /\ LET nr == neighbor_remainders
       IN  /\ remainders' = Memo(nr)
           /\ IF Break(nr)
              THEN /\ remainder' = RemainderRatio(remainders[offset], ref_img)
                   /\ pc_offset' = "done"
                   /\ UNCHANGED <<offset, trail>>
              ELSE /\ offset' = Add(offset, neighbors[ArgMin(nr)])
                   /\ trail' = Append(trail, offset')
                   /\ UNCHANGED <<remainder, pc_offset>>
    /\ moved_img' = LastMoved
    /\ UNCHANGED <<ref_img, overlay_img>>
    /\ UNCHANGED <<scale_vars, pool_vars, resolver_vars>>

-----------------------------------------------------------------------------
(* align_font *)

\* Scales are numerators over ScaleDenominator: halves for the bracket ends,
\* 24 steps across 1.5 (sixteenths), two narrowings to a twelfth each, and
\* twentieths for the objectives' minima.
ScaleDenominator == 16 * 12 * 12 * 5

\* low_scale, high_scale = 0.5, 2.0
LowScaleInit == ScaleDenominator \div 2
HighScaleInit == 2 * ScaleDenominator

\* resolution=25
Resolution == 25
\* score_epsilon=1e-5 and scale_epsilon=0.01, as 1 / epsilon
ScoreEpsilonInverse == 100000
ScaleEpsilonInverse == 100

Abs(n) == IF n < 0 THEN -n ELSE n

\* n / d < 1 / e for integers n, d > 0, e > 0, without the product n * e
LessThanInverse(n, d, e) == n <= (d - 1) \div e

\* The average_remainder of align_font_instance at a scale: an input of the
\* search, here a parabola or a wedge around obj.centre, a constant, or a
\* sawtooth of many local minima (obj.slope * scale modulo obj.period); as a
\* numerator over ScaleDenominator * ScaleDenominator.
AverageRemainder(obj, scale) ==
    CASE obj.kind = "quad" -> (scale - obj.centre) * (scale - obj.centre)
      [] obj.kind = "abs" -> Abs(scale - obj.centre) * ScaleDenominator
      [] obj.kind = "flat" -> 0
      [] obj.kind = "saw" -> ((obj.slope * scale) % obj.period) * ScaleDenominator

Centres == {(k * ScaleDenominator) \div 20 : k \in 2..MaxCentre}

\* the sawtooth objectives: slopes 1..MaxSlope over prime periods
Sawteeth ==
    {[kind |-> "saw", slope |-> m, period |-> p] : m \in 1..MaxSlope, p \in {89, 97}}

Objectives ==
    {[kind |-> k, centre |-> c] : k \in {"quad", "abs"}, c \in Centres}
    \cup {[kind |-> "flat", centre |-> 0]}
    \cup Sawteeth

\* np.linspace(low, high, num); entry i + 1 is the sample of index i
Linspace(low, high, num) ==
    [i \in 1..num |-> low + ((i - 1) * (high - low)) \div (num - 1)]

\* seq[i] with Python's 0-based index
At(seq, i) == seq[i + 1]

\* is_within_bounds = bool(0 < min_i < len(results) - 1)
is_within_bounds(min_i, len) == 0 < min_i /\ min_i < len - 1

\* a variant of Finished without the scale tolerance
FinishedIgnoringScale(scales, results, min_i) ==
    IF ~is_within_bounds(min_i, Len(results)) THEN TRUE
    ELSE /\ LessThanInverse(Abs(At(results, min_i - 1) - At(results, min_i)),
                            ScaleDenominator * ScaleDenominator, ScoreEpsilonInverse)
         /\ LessThanInverse(Abs(At(results, min_i + 1) - At(results, min_i)),
                            ScaleDenominator * ScaleDenominator, ScoreEpsilonInverse)

\* the condition of the if: not interior, or both neighbours within
\* score_epsilon of the minimum, or the neighbours' scales within scale_epsilon
Finished(scales, results, min_i) ==
    IF ~is_within_bounds(min_i, Len(results)) THEN TRUE
    ELSE \/ /\ LessThanInverse(Abs(At(results, min_i - 1) - At(results, min_i)),
                               ScaleDenominator * ScaleDenominator, ScoreEpsilonInverse)
            /\ LessThanInverse(Abs(At(results, min_i + 1) - At(results, min_i)),
                               ScaleDenominator * ScaleDenominator, ScoreEpsilonInverse)
         \/ LessThanInverse(At(scales, min_i + 1) - At(scales, min_i - 1),
                            ScaleDenominator, ScaleEpsilonInverse)

\* a variant of Returned that reports every result as converged
ReturnedAlwaysConverged(scales, results, min_i) ==
    [converged |-> TRUE,
     font_scale |-> At(scales, min_i),
     average_remainder |-> At(results, min_i)]

\* the dictionary align_font returns (the font names are added in run_pool's model)
Returned(scales, results, min_i) ==
    [converged |-> is_within_bounds(min_i, Len(results)),
     font_scale |-> At(scales, min_i),
     average_remainder |-> At(results, min_i)]

\* a variant of Narrowed that takes scales[min_i] as the upper end
NarrowedOffByOne(scales, min_i) == <<At(scales, min_i - 1), At(scales, min_i)>>

\* low_scale, high_scale = scales[min_i - 1], scales[min_i + 1]
Narrowed(scales, min_i) == <<At(scales, min_i - 1), At(scales, min_i + 1)>>

Samples(obj, scales) == [i \in 1..Len(scales) |-> AverageRemainder(obj, scales[i])]

ScaleIdle ==
    /\ objective = <<>>
    /\ low_scale = 0
    /\ high_scale = 0
    /\ iterations = 0
    /\ result = <<>>
    /\ pc_scale = "idle"

ScaleStarts ==
    /\ objective \in Objectives
    /\ low_scale = LowScaleInit
    /\ high_scale = HighScaleInit
    /\ iterations = 0
    /\ result = <<>>
    /\ pc_scale = "sampling"

\* an iteration of the while loop that returns
AlignReturn ==
    /\ pc_scale = "sampling"
    /\ LET scales == Linspace(low_scale, high_scale, Resolution)
           results == Samples(objective, scales)
           min_i == ArgMin(results) - 1
       IN  /\ Finished(scales, results, min_i)
           /\ result' = Returned(scales, results, min_i)
    /\ iterations' = iterations + 1
    /\ pc_scale' = "returned"
    /\ UNCHANGED <<objective, low_scale, high_scale>>
    /\ UNCHANGED <<offset_vars, pool_vars, resolver_vars>>

\* an iteration of the while loop that narrows the bracket
AlignNarrow ==
    /\ pc_scale = "sampling"
    /\ LET scales == Linspace(low_scale, high_scale, Resolution)
           results == Samples(objective, scales)
           min_i == ArgMin(results) - 1
       IN  /\ ~Finished(scales, results, min_i)
           /\ low_scale' = Narrowed(scales, min_i)[1]
           /\ high_scale' = Narrowed(scales, min_i)[2]
    /\ iterations' = iterations + 1
    /\ UNCHANGED <<objective, result, pc_scale>>
    /\ UNCHANGED <<offset_vars, pool_vars, resolver_vars>>

-----------------------------------------------------------------------------
(* run_pool, run, store_result, write_json, write_report *)

\* align_font as a function of the objective: the while loop run to its return
RECURSIVE AlignFontFrom(_, _, _)
AlignFontFrom(obj, low, high) ==
    LET scales == Linspace(low, high, Resolution)
        results == Samples(obj, scales)
        min_i == ArgMin(results) - 1
    IN  IF Finished(scales, results, min_i)
        THEN Returned(scales, results, min_i)
        ELSE AlignFontFrom(obj, Narrowed(scales, min_i)[1], Narrowed(scales, min_i)[2])

\* font files, as <<folder, stem>> (names from regenerate_remappings)
OverlayPaths ==
    << <<"fonts", "Junicode-BoldItalic">>, <<"fonts", "EBGaramond-Bold">>,
       <<"fonts", "IBMPlexSans-Bold">>, <<"fonts", "LiberationSans-Bold">> >>

BasePaths == { <<"proprietary/fonts", "AGaramond">>, <<"proprietary/fonts", "Arial">> }

\* Path(p).stem
Stem(p) == p[2]

\* the objectives the pairs of a batch meet: one minimal left of the bracket,
\* one minimal inside it
PairObjectives ==
    { [kind |-> "abs", centre |-> (8 * ScaleDenominator) \div 20],
      [kind |-> "quad", centre |-> (12 * ScaleDenominator) \div 10] }

Pairs == 1..Len(font_map)
OverlayOf(i) == font_map[i][1]
BaseOf(i) == font_map[i][2]

\* ImageFont.truetype succeeds for both fonts of pair i
Readable(i) == OverlayOf(i) \notin unreadable /\ BaseOf(i) \notin unreadable

\* the dictionary align_font returns for pair i
AlignFontResult(i) ==
    LET r == AlignFontFrom(objectives[i], LowScaleInit, HighScaleInit)
    IN  [converged |-> r.converged,
         base_font |-> Stem(BaseOf(i)),
         base_font_path |-> BaseOf(i),
         overlay_font |-> Stem(OverlayOf(i)),
         overlay_font_path |-> OverlayOf(i),
         font_scale |-> r.font_scale,
         average_remainder |-> r.average_remainder]

\* del d[key]
Del(d, key) == [k \in DOMAIN d \ {key} |-> d[k]]

\* what write_json dumps: the result without its paths and without "converged"
JsonOf(d) == Del(Del(Del(d, "base_font_path"), "overlay_font_path"), "converged")

\* f"{OUTPUT_FOLDER}/{overlay_font}_on_{base_font}.json"
OutJsonPath(d) == <<"out", d.overlay_font, d.base_font, "json">>
\* f"{REMAP_FOLDER}/{Path(result['base_font_path']).stem}.json"
RemapJsonPath(d) == <<"remap", Stem(d.base_font_path), "json">>
\* f"{OUTPUT_FOLDER}/{overlay_font}_on_{base_font}.html"
ReportPath(d) == <<"out", d.overlay_font, d.base_font, "html">>

\* what write_report writes, as far as the result decides it
ReportOf(d) ==
    [title |-> <<d.overlay_font, d.base_font>>,
     warning |-> ~d.converged,
     font_scale |-> d.font_scale,
     average_remainder |-> d.average_remainder]

EmptyFile == [bytes |-> "none"]
GarbledFile == [bytes |-> "mixed"]

\* open(path, "w"): the file exists and is empty
Opened(fs, path) ==
    [q \in DOMAIN fs \cup {path} |-> IF q = path THEN EmptyFile ELSE fs[q]]

\* The contents a file can have after this writer's dump and close.  Bytes
\* another process wrote since this writer's open are overwritten from
\* offset 0: the file then holds this content, or this content followed by
\* the tail of the longer other one.
AfterDump(fs, path, content) ==
    IF fs[path] = EmptyFile \/ fs[path] = content THEN {content}
    ELSE {content, GarbledFile}

Running == {i \in Pairs : task[i] \notin {"queued", "done", "failed", "killed"}}

PoolIdle ==
    /\ font_map = <<>>
    /\ install_remap = FALSE
    /\ unreadable = {}
    /\ objectives = <<>>
    /\ task = <<>>
    /\ align_result = <<>>
    /\ files = <<>>
    /\ outqueue = <<>>
    /\ collected = 0
    /\ pc_pool = "idle"

ResolverIdle ==
    /\ remapped_fonts = <<>>
    /\ canvas = <<>>

\* run_pool is called: the pool exists and every task is in its queue
PoolStarts ==
    /\ \E n \in 1..MaxPairs :
         /\ \E bases \in [1..n -> BasePaths] :
              font_map = [i \in 1..n |-> <<OverlayPaths[i], bases[i]>>]
         /\ objectives \in [1..n -> PairObjectives]
         /\ task = [i \in 1..n |-> "queued"]
         /\ align_result = [i \in 1..n |-> <<>>]
    /\ install_remap \in BOOLEAN
    /\ \E bad \in SUBSET ({font_map[i][1] : i \in 1..Len(font_map)}
                          \cup {font_map[i][2] : i \in 1..Len(font_map)}) :
         /\ Cardinality(bad) <= 1
         /\ unreadable = bad
    /\ files = <<>>
    /\ outqueue = <<>>
    /\ collected = 0
    /\ pc_pool = "collecting"

Alive == pc_pool \in {"collecting", "returned", "raised"}

\* a free worker takes the next task of args_list
StartTask(i) ==
    /\ Alive
    /\ task[i] = "queued"
    /\ \A j \in 1..(i - 1) : task[j] # "queued"
    /\ Cardinality(Running) < NumWorkers
    /\ task' = [task EXCEPT ![i] = "align"]
    /\ UNCHANGED <<font_map, install_remap, unreadable, objectives, align_result,
                   files, outqueue, collected, pc_pool>>
    /\ UNCHANGED <<offset_vars, scale_vars, resolver_vars>>

\* run: result = align_font(overlay_font_path, base_font_path)
AlignFont(i) ==
    /\ Alive
    /\ task[i] = "align"
    /\ Readable(i)
    /\ align_result' = [align_result EXCEPT ![i] = AlignFontResult(i)]
    /\ task' = [task EXCEPT ![i] = "open_out"]
    /\ UNCHANGED <<font_map, install_remap, unreadable, objectives,
                   files, outqueue, collected, pc_pool>>
    /\ UNCHANGED <<offset_vars, scale_vars, resolver_vars>>

\* ImageFont.truetype raises in align_font: the task ends with the exception
AlignFontRaises(i) ==
    /\ Alive
    /\ task[i] = "align"
    /\ ~Readable(i)
    /\ task' = [task EXCEPT ![i] = "failed"]
    /\ outqueue' = Append(outqueue, <<i, "error">>)
    /\ UNCHANGED <<font_map, install_remap, unreadable, objectives, align_result,
                   files, collected, pc_pool>>
    /\ UNCHANGED <<offset_vars, scale_vars, resolver_vars>>

\* write_json(result): open(path, "w")
OpenOutJson(i) ==
    /\ Alive
    /\ task[i] = "open_out"
    /\ files' = Opened(files, OutJsonPath(align_result[i]))
    /\ task' = [task EXCEPT ![i] = "dump_out"]
    /\ UNCHANGED <<font_map, install_remap, unreadable, objectives, align_result,
                   outqueue, collected, pc_pool>>
    /\ UNCHANGED <<offset_vars, scale_vars, resolver_vars>>

\* write_json(result): json.dump and close; then the if of store_result
DumpOutJson(i) ==
    /\ Alive
    /\ task[i] = "dump_out"
    /\ \E content \in AfterDump(files, OutJsonPath(align_result[i]), JsonOf(align_result[i])) :
         files' = [files EXCEPT ![OutJsonPath(align_result[i])] = content]
    /\ task' = [task EXCEPT ![i] = IF install_remap THEN "open_remap" ELSE "report"]
    /\ UNCHANGED <<font_map, install_remap, unreadable, objectives, align_result,
                   outqueue, collected, pc_pool>>
    /\ UNCHANGED <<offset_vars, scale_vars, resolver_vars>>

\* write_json(result, f"{REMAP_FOLDER}/...json"): open(path, "w")
OpenRemapJson(i) ==
    /\ Alive
    /\ task[i] = "open_remap"
    /\ files' = Opened(files, RemapJsonPath(align_result[i]))
    /\ task' = [task EXCEPT ![i] = "dump_remap"]
    /\ UNCHANGED <<font_map, install_remap, unreadable, objectives, align_result,
                   outqueue, collected, pc_pool>>
    /\ UNCHANGED <<offset_vars, scale_vars, resolver_vars>>

\* write_json(result, f"{REMAP_FOLDER}/...json"): json.dump and close
DumpRemapJson(i) ==
    /\ Alive
    /\ task[i] = "dump_remap"
    /\ \E content \in AfterDump(files, RemapJsonPath(align_result[i]), JsonOf(align_result[i])) :
         files' = [files EXCEPT ![RemapJsonPath(align_result[i])] = content]
    /\ task' = [task EXCEPT ![i] = "report"]
    /\ UNCHANGED <<font_map, install_remap, unreadable, objectives, align_result,
                   outqueue, collected, pc_pool>>
    /\ UNCHANGED <<offset_vars, scale_vars, resolver_vars>>

\* write_report(result); run returns and the worker puts the task's result
WriteReport(i) ==
    /\ Alive
    /\ task[i] = "report"
    /\ files' = [q \in DOMAIN files \cup {ReportPath(align_result[i])} |->
                    IF q = ReportPath(align_result[i]) THEN ReportOf(align_result[i])
                    ELSE files[q]]
    /\ task' = [task EXCEPT ![i] = "done"]
    /\ outqueue' = Append(outqueue, <<i, "ok">>)
    /\ UNCHANGED <<font_map, install_remap, unreadable, objectives, align_result,
                   collected, pc_pool>>
    /\ UNCHANGED <<offset_vars, scale_vars, resolver_vars>>

\* list(tqdm(pool.imap_unordered(...))) takes the next result; after the last
\* one run_pool returns
Collect ==
    /\ pc_pool = "collecting"
    /\ outqueue # <<>>
    /\ Head(outqueue)[2] = "ok"
    /\ outqueue' = Tail(outqueue)
    /\ collected' = collected + 1
    /\ pc_pool' = IF collected + 1 = Len(font_map) THEN "returned" ELSE "collecting"
    /\ UNCHANGED <<font_map, install_remap, unreadable, objectives, task, align_result, files>>
    /\ UNCHANGED <<offset_vars, scale_vars, resolver_vars>>

\* the next result is a task's exception: the iterator re-raises it and
\* run_pool is left through it
CollectRaises ==
    /\ pc_pool = "collecting"
    /\ outqueue # <<>>
    /\ Head(outqueue)[2] = "error"
    /\ outqueue' = Tail(outqueue)
    /\ pc_pool' = "raised"
    /\ UNCHANGED <<font_map, install_remap, unreadable, objectives, task, align_result,
                   files, collected>>
    /\ UNCHANGED <<offset_vars, scale_vars, resolver_vars>>

\* The pool, never closed or joined, is finalized once run_pool has been left
\* by the exception (at garbage collection or interpreter exit): its workers
\* are terminated wherever their tasks stand.
TerminatePool ==
    /\ pc_pool = "raised"
    /\ task' = [i \in Pairs |->
                   IF task[i] \in {"done", "failed"} THEN task[i] ELSE "killed"]
    /\ pc_pool' = "terminated"
    /\ UNCHANGED <<font_map, install_remap, unreadable, objectives, align_result,
                   files, outqueue, collected>>
    /\ UNCHANGED <<offset_vars, scale_vars, resolver_vars>>

-----------------------------------------------------------------------------
(* fonts.py: setup_boldened_font and the remap tables it reads *)

None == [none |-> TRUE]

\* os.listdir("remap"), the .json files' identifiers
RemapIdentifiers == {q[2] : q \in {f \in DOMAIN files : f[1] = "remap"}}

\* _init_remapped_fonts
InitRemappedFonts(cache) ==
    IF DOMAIN cache # {} THEN cache
    ELSE [id \in RemapIdentifiers |-> None]

\* json.load of the remap file: a document to parse, or a JSONDecodeError
Loadable(content) == content # EmptyFile /\ content # GarbledFile

\* the cache after _get_remapping(identifier)
RemappedFontsAfter(identifier) ==
    LET cache == InitRemappedFonts(remapped_fonts)
    IN  IF identifier \in DOMAIN cache /\ cache[identifier] = None
        THEN [cache EXCEPT ![identifier] = files[<<"remap", identifier, "json">>]]
        ELSE cache

\* _bolden, for an identifier without modifiers
Bolden(identifier) == <<identifier, "Bold">>

\* setup_boldened_font(canvas, identifier, size, use_extrabold), for an
\* identifier already in its canonical form and fonts that can be registered:
\* with a remapping the overlay font is set at size * font_scale, without one
\* the bold variant of the identifier at size
SetupBoldenedFont(identifier) ==
    /\ pc_pool \in {"returned", "terminated"}
    /\ LET cache == InitRemappedFonts(remapped_fonts)
       IN  (identifier \in DOMAIN cache /\ cache[identifier] = None)
              => Loadable(files[<<"remap", identifier, "json">>])
    /\ remapped_fonts' = RemappedFontsAfter(identifier)
    /\ canvas' =
         IF identifier \in DOMAIN RemappedFontsAfter(identifier)
         THEN LET remapping == RemappedFontsAfter(identifier)[identifier]
              IN  [font |-> remapping.overlay_font,
                   size_factor |-> remapping.font_scale,
                   remapping |-> remapping]
         ELSE [font |-> Bolden(identifier),
               size_factor |-> ScaleDenominator,
               remapping |-> None]
    /\ UNCHANGED <<pool_vars, offset_vars, scale_vars>>

\* json.load raises on a remap file that holds no JSON document
SetupBoldenedFontRaises(identifier) ==
    /\ pc_pool \in {"returned", "terminated"}
    /\ LET cache == InitRemappedFonts(remapped_fonts)
       IN  /\ identifier \in DOMAIN cache
           /\ cache[identifier] = None
           /\ ~Loadable(files[<<"remap", identifier, "json">>])
    /\ remapped_fonts' = InitRemappedFonts(remapped_fonts)
    /\ UNCHANGED canvas
    /\ UNCHANGED <<pool_vars, offset_vars, scale_vars>>

-----------------------------------------------------------------------------
(* Specifications *)

OffsetInit == OffsetStarts /\ ScaleIdle /\ PoolIdle /\ ResolverIdle

OffsetNext == Iterate

OffsetSpec == OffsetInit /\ [][OffsetNext]_vars

ScaleInit == ScaleStarts /\ OffsetIdle /\ PoolIdle /\ ResolverIdle

ScaleNext == AlignReturn \/ AlignNarrow

ScaleSpec == ScaleInit /\ [][ScaleNext]_vars

\* align_font runs in one process, whose while loop keeps taking iterations
ScaleFairSpec == ScaleSpec /\ WF_vars(ScaleNext)

PoolInit == PoolStarts /\ ResolverIdle /\ OffsetIdle /\ ScaleIdle

PoolNext ==
    \/ \E i \in Pairs : StartTask(i)
    \/ \E i \in Pairs : AlignFont(i)
    \/ \E i \in Pairs : AlignFontRaises(i)
    \/ \E i \in Pairs : OpenOutJson(i)
    \/ \E i \in Pairs : DumpOutJson(i)
    \/ \E i \in Pairs : OpenRemapJson(i)
    \/ \E i \in Pairs : DumpRemapJson(i)
    \/ \E i \in Pairs : WriteReport(i)
    \/ Collect
    \/ CollectRaises
    \/ TerminatePool
    \/ \E b \in BasePaths : SetupBoldenedFont(Stem(b))
    \/ \E b \in BasePaths : SetupBoldenedFontRaises(Stem(b))

PoolSpec == PoolInit /\ [][PoolNext]_vars

-----------------------------------------------------------------------------
(* Properties of optimize_offset *)

\* the cost of the overlay shifted by o, computed afresh the way the search does
FreshCost(o) == Cost(MovedOverlay(o), ref_img)

\* C1: the remainder ratio optimize_offset returns (the cost at the final
\* search offset over W x H of the reference bitmap) lies in [0, 1].
C1_RemainderRatioInUnitInterval ==
    pc_offset = "done" =>
        /\ remainder[2] = Height(ref_img) * Width(ref_img) * MaxGray * MaxGray
        /\ remainder[1] = remainders[offset]
        /\ 0 <= remainder[1]
        /\ remainder[1] <= remainder[2]

\* The search has ended away from (0,0) with ink left uncovered, and it has
\* evaluated a shift whose cost exceeds W x H.
C1_Witness ==
    /\ pc_offset = "done"
    /\ offset # <<0, 0>>
    /\ remainder[1] > 0
    /\ \E o \in DOMAIN remainders : remainders[o] > remainder[2]

\* C2 as claimed: the image the search gets from move_image for (dx,dy) has
\* the overlay's shape, holds the overlay value of (x-dx, y-dy) where that
\* cell is on the canvas, and the background intensity 1.0 everywhere else.
C2_ShiftPadsWithBackground ==
    moved_img # <<>> =>
        /\ Height(moved_img.image) = Height(overlay_img)
        /\ \A y \in 1..Height(overlay_img) :
             /\ Len(moved_img.image[y]) = Width(overlay_img)
             /\ \A x \in 1..Width(overlay_img) :
                  moved_img.image[y][x] =
                      IF /\ 1 <= x - moved_img.new_offset[1]
                         /\ x - moved_img.new_offset[1] <= Width(overlay_img)
                         /\ 1 <= y - moved_img.new_offset[2]
                         /\ y - moved_img.new_offset[2] <= Height(overlay_img)
                      THEN overlay_img[y - moved_img.new_offset[2]][x - moved_img.new_offset[1]]
                      ELSE Normalized(1)

\* C8: reference = a filled disk away from the edges, overlay = the same disk
\* shifted by (+2,-1): the search ends at offset (-2,+1) with remainder 0.
C8_DiskOffsetRecovered ==
    \A r \in 1..MaxRadius :
        ( /\ pc_offset = "done"
          /\ ref_img = DiskImage(DiskCentre, DiskCentre, r)
          /\ overlay_img = DiskImage(DiskCentre + 2, DiskCentre - 1, r) )
        => /\ offset = <<-2, 1>>
           /\ remainder[1] = 0

\* The search on the disk pair shifted by (+2,-1) has ended, at (-2,+1).
C8_Witness ==
    /\ pc_offset = "done"
    /\ ref_img = DiskImage(DiskCentre, DiskCentre, MaxRadius)
    /\ overlay_img = DiskImage(DiskCentre + 2, DiskCentre - 1, MaxRadius)
    /\ Cost(overlay_img, ref_img) > 0
    /\ offset = <<-2, 1>>

\* C9: the cost of the current offset never increases across a move of the
\* search, and the cost where the search stops is at most the cost at (0,0).
C9_CostNeverIncreases ==
    /\ [](pc_offset = "done" => FreshCost(offset) <= Cost(overlay_img, ref_img))
    /\ [][FreshCost(offset') <= FreshCost(offset)]_vars

\* The search has stopped after a move, at a cost below the cost at (0,0).
C9_Witness ==
    /\ pc_offset = "done"
    /\ offset # <<0, 0>>
    /\ FreshCost(offset) < Cost(overlay_img, ref_img)

\* the fresh costs of the 8 neighbours of o, in enumeration order
FreshNeighborCosts(o) ==
    << FreshCost(Add(o, neighbors[1])), FreshCost(Add(o, neighbors[2])),
       FreshCost(Add(o, neighbors[3])), FreshCost(Add(o, neighbors[4])),
       FreshCost(Add(o, neighbors[5])), FreshCost(Add(o, neighbors[6])),
       FreshCost(Add(o, neighbors[7])), FreshCost(Add(o, neighbors[8])) >>

\* fc[k] is the minimum of fc, and no earlier entry equals it
IsFirstMinimum(fc, k) ==
    /\ \A j \in 1..Len(fc) : fc[k] <= fc[j]
    /\ \A j \in 1..(k - 1) : fc[j] > fc[k]

\* C10: each step moves to the neighbour of minimum cost among all 8 (the
\* first in enumeration order on ties); the search stops exactly when that
\* neighbour's cost is not strictly less than the current cost; at the final
\* offset no neighbour is strictly cheaper; the memo holds the fresh costs.
C10_SteepestDescent ==
    /\ [](\A o \in DOMAIN remainders : remainders[o] = FreshCost(o))
    /\ [](pc_offset = "done" =>
            LET fc == FreshNeighborCosts(offset)
            IN  \A k \in 1..Len(neighbors) : fc[k] >= FreshCost(offset))
    /\ [][ LET fc == FreshNeighborCosts(offset)
               best == CHOOSE k \in 1..Len(neighbors) : IsFirstMinimum(fc, k)
           IN  /\ offset' # offset => offset' = Add(offset, neighbors[best])
               /\ (pc_offset = "search" /\ pc_offset' = "done")
                    <=> (fc[best] >= FreshCost(offset))
               /\ pc_offset' = "search" => offset' # offset ]_vars

\* The search has stopped after a move that had to pick among tied best
\* neighbours, with a memo entry read again from an earlier iteration.
C10_Witness ==
    /\ pc_offset = "done"
    /\ offset # <<0, 0>>
    /\ Cardinality(DOMAIN remainders) < 1 + 2 * Len(neighbors)
    /\ LET fc == FreshNeighborCosts(<<0, 0>>)
       IN  \E j, k \in 1..Len(neighbors) :
             /\ IsFirstMinimum(fc, k)
             /\ j # k
             /\ fc[j] = fc[k]
             /\ fc[k] < Cost(overlay_img, ref_img)

\* new_offset shifts the overlay entirely off the canvas
OffCanvas(new_offset) ==
    \/ Abs(new_offset[1]) >= Width(ref_img)
    \/ Abs(new_offset[2]) >= Height(ref_img)

\* C12: the hill-climb loop terminates: every iteration either stops the
\* search or moves it on, every move strictly decreases the cost of the
\* current offset, so no offset is visited twice; the search never moves to
\* an offset that shifts the overlay entirely off the canvas, which leaves it
\* at most (2W-1) x (2H-1) offsets to visit.
C12_HillClimbTerminates ==
    /\ [](pc_offset \in {"search", "done"})
    /\ [][ pc_offset = "search" =>
             \/ pc_offset' = "done" /\ trail' = trail
             \/ pc_offset' = "search" /\ Len(trail') = Len(trail) + 1 ]_vars
    /\ [](/\ trail[1] = <<0, 0>>
          /\ trail[Len(trail)] = offset
          /\ \A i \in 1..(Len(trail) - 1) :
               /\ FreshCost(trail[i + 1]) < FreshCost(trail[i])
               /\ \E k \in 1..Len(neighbors) : trail[i + 1] = Add(trail[i], neighbors[k]))
    /\ [](\A i, j \in 1..Len(trail) : i # j => trail[i] # trail[j])
    /\ [](\A i \in 1..Len(trail) : ~OffCanvas(trail[i]))
    /\ [](Len(trail) <= (2 * Width(ref_img) - 1) * (2 * Height(ref_img) - 1))

\* The search has stopped after a move, having evaluated a neighbour that
\* shifts the overlay entirely off the canvas and found it no cheaper.
C12_Witness ==
    /\ pc_offset = "done"
    /\ Len(trail) > 1
    /\ \E k \in 1..Len(neighbors) :
         /\ OffCanvas(Add(offset, neighbors[k]))
         /\ Add(offset, neighbors[k]) \in DOMAIN remainders
         /\ remainders[Add(offset, neighbors[k])] >= remainders[offset]
         /\ remainders[Add(offset, neighbors[k])] > 0

-----------------------------------------------------------------------------
(* Properties of align_font *)

\* every sample of the current bracket is an exact multiple of 1 / ScaleDenominator
LinspaceExact ==
    pc_scale = "sampling" => ((high_scale - low_scale) % (Resolution - 1) = 0)

\* the samples of the current bracket and their objective values
CurrentScales == Linspace(low_scale, high_scale, Resolution)
CurrentValues == Samples(objective, CurrentScales)

\* the minimum of the current samples is at index 0 (np.argmin: the first minimum)
MinimumAtFirst ==
    \A i \in 1..Resolution : CurrentValues[1] <= CurrentValues[i]

\* the minimum of the current samples is at the last index
MinimumAtLast ==
    \A i \in 1..(Resolution - 1) : CurrentValues[i] > CurrentValues[Resolution]

\* C6: an iteration whose minimum is at index 0 or at the last index returns
\* in that iteration with converged=false and font_scale = that boundary
\* sample; an objective minimal at the lowest sampled scale ends the search
\* after exactly one iteration with converged=false and font_scale=0.5.
C6_BoundaryStopsUnconverged ==
    /\ []( ( /\ pc_scale = "returned"
             /\ \A i \in 1..Resolution :
                  AverageRemainder(objective, LowScaleInit) <=
                  AverageRemainder(objective,
                      Linspace(LowScaleInit, HighScaleInit, Resolution)[i]) )
           => /\ iterations = 1
              /\ result.converged = FALSE
              /\ 2 * result.font_scale = ScaleDenominator )
    /\ [][ (pc_scale = "sampling" /\ (MinimumAtFirst \/ MinimumAtLast))
           => /\ pc_scale' = "returned"
              /\ iterations' = iterations + 1
              /\ result'.converged = FALSE
              /\ MinimumAtFirst => result'.font_scale = low_scale
              /\ (~MinimumAtFirst) => result'.font_scale = high_scale ]_vars

\* A search over a wedge with its minimum at 0.4, left of the bracket, has
\* returned after one iteration, unconverged, at the lowest sample 0.5.
C6_Witness ==
    /\ pc_scale = "returned"
    /\ objective = [kind |-> "abs", centre |-> (8 * ScaleDenominator) \div 20]
    /\ iterations = 1
    /\ result.converged = FALSE
    /\ result.font_scale = LowScaleInit

\* averageRemainder(scale) = (scale - 1.2)^2
Parabola12 == [kind |-> "quad", centre |-> (12 * ScaleDenominator) \div 10]

\* C7: with averageRemainder(scale) = (scale - 1.2)^2, bracket [0.5, 2.0],
\* resolution 25 and tolerances 1e-5 and 0.01, align_font returns
\* converged=true and a font_scale within 0.01 of 1.2.
C7_ParabolaConverges ==
    (pc_scale = "returned" /\ objective = Parabola12)
    => /\ result.converged = TRUE
       /\ ScaleEpsilonInverse * Abs(result.font_scale - Parabola12.centre)
            <= ScaleDenominator

\* The search over the parabola has returned, after narrowing the bracket.
C7_Witness ==
    /\ pc_scale = "returned"
    /\ objective = Parabola12
    /\ iterations > 1
    /\ result.font_scale # Parabola12.centre

\* C11: the scale search terminates: an iteration that does not return
\* replaces the bracket by [scales[min-1], scales[min+1]], inside the previous
\* bracket and of 2/(resolution-1) of its width; with the defaults the search
\* returns after at most 3 iterations with a font_scale in [0.5, 2.0].
C11_ScaleSearchTerminates ==
    /\ <>(pc_scale = "returned")
    /\ [](iterations <= 3)
    /\ [](pc_scale = "sampling" => iterations <= 2)
    /\ [](pc_scale = "returned" =>
            /\ LowScaleInit <= result.font_scale
            /\ result.font_scale <= HighScaleInit)
    /\ [][ (pc_scale = "sampling" /\ pc_scale' = "sampling") =>
             /\ LET min_i == ArgMin(CurrentValues) - 1
                IN  /\ low_scale' = At(CurrentScales, min_i - 1)
                    /\ high_scale' = At(CurrentScales, min_i + 1)
             /\ low_scale <= low_scale'
             /\ low_scale' < high_scale'
             /\ high_scale' <= high_scale
             /\ (Resolution - 1) * (high_scale' - low_scale') =
                    2 * (high_scale - low_scale) ]_vars

\* A search over a sawtooth has narrowed the bracket twice and returned from
\* its third iteration on the scale tolerance alone: the neighbours of the
\* minimum differ from it by more than score_epsilon.
C11_Witness ==
    /\ pc_scale = "returned"
    /\ objective.kind = "saw"
    /\ iterations = 3
    /\ result.converged = TRUE
    /\ low_scale > LowScaleInit
    /\ high_scale < HighScaleInit
    /\ ~FinishedIgnoringScale(CurrentScales, CurrentValues, ArgMin(CurrentValues) - 1)

-----------------------------------------------------------------------------
(* Properties of run_pool, store_result and the resolver *)

\* the pairs whose align_font returned converged=false
Unconverged == {i \in Pairs : align_result[i] # <<>> /\ ~align_result[i].converged}

\* a JSON document that says it comes from an unconverged search
FlaggedUnconverged(doc) == "converged" \in DOMAIN doc /\ doc.converged = FALSE

\* C3 as claimed: a result with converged=false stays flagged in every
\* persisted artifact and for every consumer: the report carries the
\* warning, the out/ and remap/ JSON written from it say converged=false,
\* and so does a remapping the font resolver has applied.
C3_UnconvergedStaysFlagged ==
    \A i \in Unconverged :
        /\ \A path \in {ReportPath(align_result[i])} \cap DOMAIN files :
             files[path] = ReportOf(align_result[i]) => files[path].warning
        /\ \A path \in {OutJsonPath(align_result[i]), RemapJsonPath(align_result[i])}
                         \cap DOMAIN files :
             files[path] = JsonOf(align_result[i]) => FlaggedUnconverged(files[path])
        /\ (canvas # <<>> /\ canvas.remapping = JsonOf(align_result[i]))
             => FlaggedUnconverged(canvas.remapping)

\* the pool is at rest: run_pool was left and no worker runs any more
PoolAtRest ==
    \/ pc_pool = "returned"
    \/ pc_pool = "terminated"

\* C4 as claimed: when one pair's font is unreadable only that pair fails;
\* every other pair of the batch is aligned and has its outputs written.
C4_OtherPairsUnaffected ==
    PoolAtRest =>
        \A i \in Pairs :
            Readable(i) =>
                /\ task[i] = "done"
                /\ OutJsonPath(AlignFontResult(i)) \in DOMAIN files
                /\ files[OutJsonPath(AlignFontResult(i))] = JsonOf(AlignFontResult(i))
                /\ ReportPath(AlignFontResult(i)) \in DOMAIN files

\* the JSON files run_pool persists for pair i
JsonPaths(i) ==
    {OutJsonPath(AlignFontResult(i))} \cup
    (IF install_remap THEN {RemapJsonPath(AlignFontResult(i))} ELSE {})

\* the last pair, in the order of font_map, that writes path
LastWriter(path) ==
    CHOOSE i \in Pairs :
        /\ path \in JsonPaths(i)
        /\ \A j \in Pairs : path \in JsonPaths(j) => j <= i

\* what the batch leaves in path when its pairs are run one after the other
InOrderContent(path) == JsonOf(AlignFontResult(LastWriter(path)))

\* C5 as claimed: the final content of every persisted JSON file does not
\* depend on the interleaving: it is what the pairs run in the order of
\* font_map leave there.
C5_FilesIndependentOfOrder ==
    pc_pool = "returned" =>
        \A i \in Pairs : \A path \in JsonPaths(i) :
            path \in DOMAIN files /\ files[path] = InOrderContent(path)

\* Two overlays share a base with install_remap, run_pool has returned, and
\* the files hold what the in-order run leaves: together with the violation
\* of C5_FilesIndependentOfOrder, two final contents for one font map.
C5_InOrderOutcomeReached ==
    /\ pc_pool = "returned"
    /\ install_remap
    /\ Len(font_map) = 2
    /\ BaseOf(1) = BaseOf(2)
    /\ objectives[1] # objectives[2]
    /\ \A i \in Pairs : \A path \in JsonPaths(i) :
            path \in DOMAIN files /\ files[path] = InOrderContent(path)

=============================================================================
